---- MODULE Spec2Model ----
(***************************************************************************)
(* Model of libvmi/driver/memory_cache.c, the physical-memory page cache   *)
(* of LibVMI, built with ENABLE_PAGE_CACHE == 1 (the full cache: a hash    *)
(* table indexed by page address plus a recency list of key copies).       *)
(*                                                                         *)
(* The fetch and release callbacks are the environment.  fetch hands out,  *)
(* on success, a buffer that is not live (as an allocator does: the lowest *)
(* free one) and NULL on failure; the environment keeps its own account of *)
(* the live buffers.  Addresses are AddrBits wide instead of 64 so that    *)
(* the wrap-around of addr_t arithmetic stays reachable.                   *)
(***************************************************************************)
EXTENDS Integers, Sequences, FiniteSets, TLC

\* ---------------------------------------------------------------- bounds
PageBits == 1
AddrBits == 4
MaxSizeMax == 2
MaxClock == 2
MaxOps == 4
EvictSizeMax == 4

NULL == 0

RECURSIVE Pow2(_)
Pow2(n) == IF n = 0 THEN 1 ELSE 2 * Pow2(n - 1)

\* addr_t is an unsigned integer of AddrBits bits: arithmetic is mod AddrMod
AddrMod == Pow2(AddrBits)
\* vmi->page_size, a power of two
PageSize == Pow2(PageBits)

\* the page addresses and the one misaligned address the operations are called with
TopPage == AddrMod - PageSize
Inputs == {0, PageSize, PageSize + 1, TopPage}
\* vmi->size: one byte short of two pages, so that of the pages called with one
\* lies inside the guest's memory, one ends one byte past it and one is far above
MemSize == 2 * PageSize - 1
\* age_limit: 0 disables refreshing; with the other an entry fetched at time 0
\* is stale at time MaxClock and not before
Ages == {0, MaxClock - 1}

VARIABLES
    memory_cache,          \* vmi->memory_cache: key -> entry (the GHashTable)
    memory_cache_lru,      \* vmi->memory_cache_lru: sequence of key copies, head first
    memory_cache_size,     \* vmi->memory_cache_size
    memory_cache_size_max, \* vmi->memory_cache_size_max
    memory_cache_age,      \* vmi->memory_cache_age
    hvm,                   \* vmi->hvm
    vmi_size,              \* vmi->size
    callbacks,             \* get_data_callback and release_data_callback are installed
    clock,                 \* what time(NULL) returns
    live,                  \* buffer -> [paddr, length]: fetched and not yet released
    relBad,                \* release was called on a buffer (not NULL) that was not
                           \* live, or with another length than it was fetched with
    last,                  \* the public operation that returned last, what it
                           \* returned and the callback calls it made
    nops,                  \* number of operations called since init
    removedSince,          \* keys removed with no insert of the key since
    tri,                   \* progress of the latest insert(p); remove(p); insert(p)
    fill,                  \* the pages inserted and the pages released so far, while
                           \* every operation since init was a successful insert of
                           \* a page not inserted before
    last_used_page_key,    \* vmi->last_used_page_key (build without ENABLE_PAGE_CACHE)
    last_used_page,        \* vmi->last_used_page (build without ENABLE_PAGE_CACHE)
    onlyInserts            \* every operation since init was an insert

vars == <<memory_cache, memory_cache_lru, memory_cache_size, memory_cache_size_max,
          memory_cache_age, hvm, vmi_size, callbacks, clock, live, relBad,
          last, nops, removedSince, tri, fill,
          last_used_page_key, last_used_page, onlyInserts>>

\* the state of the build without ENABLE_PAGE_CACHE
slotvars == <<last_used_page_key, last_used_page, onlyInserts>>

\* ------------------------------------------------------- integer helpers
RECURSIVE BitAnd(_, _)
BitAnd(a, b) ==
    IF a = 0 \/ b = 0 THEN 0
    ELSE (a % 2) * (b % 2) + 2 * BitAnd(a \div 2, b \div 2)

\* ~x on an addr_t
BitNot(a) == (AddrMod - 1) - a

\* mutant: the alignment mask keeps every bit
paddr_aligned_keepsAll(paddr) == BitAnd(paddr, AddrMod - 1)

\* paddr & ~(((addr_t) vmi->page_size) - 1)
paddr_aligned(paddr) == BitAnd(paddr, BitNot(PageSize - 1))

\* paddr + length - 1 in addr_t arithmetic
LastByte(paddr, length) == (((paddr + length) % AddrMod) + AddrMod - 1) % AddrMod

\* ------------------------------------------------------------ sequences
\* g_int64_equal: TRUE (1) when the two keys are equal, FALSE (0) otherwise
g_int64_equal(a, b) == IF a = b THEN 1 ELSE 0

\* g_list_find_custom(seq, &x, g_int64_equal) from node i on: the first node for
\* which the function returns 0, that is the first node whose key differs
\* from x; 0 (NULL) when there is none
RECURSIVE IndexOf(_, _, _)
IndexOf(seq, x, i) ==
    IF i > Len(seq) THEN 0
    ELSE IF g_int64_equal(seq[i], x) = 0 THEN i
    ELSE IndexOf(seq, x, i + 1)

RemoveAt(seq, i) == SubSeq(seq, 1, i - 1) \o SubSeq(seq, i + 1, Len(seq))

Restrict(f, S) == [k \in S |-> f[k]]

Perms(S) == {f \in [1..Cardinality(S) -> S] :
                \A i, j \in 1..Cardinality(S) : f[i] = f[j] => i = j}

\* ------------------------------------------------------------ callbacks
\* The working state of one operation is a record
\*   [cache, lru, size, calls, live, relBad]
\* calls is the sequence of callback invocations the operation has made.

\* release_data_callback(data, length); paddr names the entry the buffer left
release_data_callback(s, paddr, data, length) ==
    LET t == [s EXCEPT !.calls = Append(@, [cb |-> "release", paddr |-> paddr,
                                            length |-> length, buf |-> data])]
    IN  IF data = NULL THEN t
        ELSE IF data \in DOMAIN t.live /\ t.live[data].length = length
        THEN [t EXCEPT !.live = Restrict(@, DOMAIN @ \ {data})]
        ELSE [t EXCEPT !.relBad = TRUE, !.live = Restrict(@, DOMAIN @ \ {data})]

\* get_data_callback(vmi, paddr, length): a buffer that is not live, or NULL
\* when ok is FALSE
get_memory_data(s, paddr, length, ok) ==
    LET free == CHOOSE b \in 1..(Cardinality(DOMAIN s.live) + 1) :
                    /\ b \notin DOMAIN s.live
                    /\ \A c \in 1..(b - 1) : c \in DOMAIN s.live
        buf == IF ok THEN free ELSE NULL
        t == [s EXCEPT !.calls = Append(@, [cb |-> "fetch", paddr |-> paddr,
                                            length |-> length, buf |-> buf])]
    IN  [s    |-> IF ok
                  THEN [t EXCEPT !.live = [x \in DOMAIN @ \cup {buf} |->
                          IF x = buf THEN [paddr |-> paddr, length |-> length]
                          ELSE @[x]]]
                  ELSE t,
         data |-> buf]

\* ------------------------------------------- internal implementation
NoEntry == [paddr |-> 0, length |-> 0, last_updated |-> 0, last_used |-> 0, data |-> NULL]

memory_cache_entry_free(s, entry) ==
    release_data_callback(s, entry.paddr, entry.data, entry.length)

\* mutant: the value destructor runs but the key stays in the table
g_hash_table_remove_keepsKey(s, key) ==
    IF key \in DOMAIN s.cache
    THEN memory_cache_entry_free(s, s.cache[key])
    ELSE s

\* g_hash_table_remove on a table made with memory_cache_entry_free as value destructor
g_hash_table_remove(s, key) ==
    IF key \in DOMAIN s.cache
    THEN [memory_cache_entry_free(s, s.cache[key])
            EXCEPT !.cache = Restrict(@, DOMAIN @ \ {key})]
    ELSE s

remove_entry(s, key) == g_hash_table_remove(s, key)

\* mutant: the loop stops at size_max instead of size_max / 2
RECURSIVE clean_cache_detach_noHalving(_, _)
clean_cache_detach_noHalving(s, list) ==
    IF s.size > memory_cache_size_max
    THEN IF s.lru = <<>>
         THEN clean_cache_detach_noHalving([s EXCEPT !.size = @ - 1], list)
         ELSE clean_cache_detach_noHalving(
                  [s EXCEPT !.lru = SubSeq(@, 1, Len(@) - 1), !.size = @ - 1],
                  Append(list, s.lru[Len(s.lru)]))
    ELSE [s |-> s, list |-> list]

\* mutant: an if in place of the while, one node is detached
clean_cache_detach_once(s, list) ==
    IF s.size > memory_cache_size_max \div 2
    THEN IF s.lru = <<>>
         THEN [s |-> [s EXCEPT !.size = @ - 1], list |-> list]
         ELSE [s |-> [s EXCEPT !.lru = SubSeq(@, 1, Len(@) - 1), !.size = @ - 1],
               list |-> Append(list, s.lru[Len(s.lru)])]
    ELSE [s |-> s, list |-> list]

\* mutant: the loop stops at size_max - 1 instead of size_max / 2
RECURSIVE clean_cache_detach_toMaxLessOne(_, _)
clean_cache_detach_toMaxLessOne(s, list) ==
    IF s.size > memory_cache_size_max - 1
    THEN IF s.lru = <<>>
         THEN clean_cache_detach_toMaxLessOne([s EXCEPT !.size = @ - 1], list)
         ELSE clean_cache_detach_toMaxLessOne(
                  [s EXCEPT !.lru = SubSeq(@, 1, Len(@) - 1), !.size = @ - 1],
                  Append(list, s.lru[Len(s.lru)]))
    ELSE [s |-> s, list |-> list]

\* the while loop of clean_cache: detach tail nodes onto list, counting size down
RECURSIVE clean_cache_detach(_, _)
clean_cache_detach(s, list) ==
    IF s.size > memory_cache_size_max \div 2
    THEN IF s.lru = <<>>
         THEN clean_cache_detach([s EXCEPT !.size = @ - 1], list)
         ELSE clean_cache_detach(
                  [s EXCEPT !.lru = SubSeq(@, 1, Len(@) - 1), !.size = @ - 1],
                  Append(list, s.lru[Len(s.lru)]))
    ELSE [s |-> s, list |-> list]

\* g_list_foreach(list, remove_entry, vmi->memory_cache)
RECURSIVE g_list_foreach_remove_entry(_, _)
g_list_foreach_remove_entry(s, list) ==
    IF list = <<>> THEN s
    ELSE g_list_foreach_remove_entry(remove_entry(s, Head(list)), Tail(list))

clean_cache(s) ==
    LET d == clean_cache_detach(s, <<>>)
    IN  g_list_foreach_remove_entry(d.s, d.list)

\* mutant: the age limit is compared without testing that it is set
IsStale_noAgeTest(now, entry) ==
    now - entry.last_updated > memory_cache_age

\* the staleness test of validate_and_return_data
IsStale(now, entry) ==
    memory_cache_age # 0 /\ now - entry.last_updated > memory_cache_age

\* g_list_find_custom with g_int64_equal, g_list_remove_link and g_list_concat:
\* the first node whose key differs from key goes to the head; the list is left
\* alone when every node holds key
MoveToHead(lru, key) ==
    LET i == IndexOf(lru, key, 1)
    IN  IF i = 0 THEN lru ELSE <<lru[i]>> \o RemoveAt(lru, i)

validate_and_return_data(s, key, now, ok) ==
    LET entry == s.cache[key]
        s1 == release_data_callback(s, entry.paddr, entry.data, entry.length)
        g  == get_memory_data(s1, entry.paddr, entry.length, ok)
        s2 == [g.s EXCEPT !.cache[key].data = g.data,
                          !.cache[key].last_updated = now,
                          !.lru = MoveToHead(@, entry.paddr)]
        s3 == IF IsStale(now, entry) THEN s2 ELSE s
        s4 == [s3 EXCEPT !.cache[key].last_used = now]
    IN  [s |-> s4, ret |-> s4.cache[key].data]

\* the sanity check of create_new_entry
OutOfRange(paddr, length) == hvm /\ LastByte(paddr, length) > vmi_size

\* mutant: eviction before the fetch of the new page
create_new_entry_evictFirst(s, paddr, length, now, ok) ==
    IF OutOfRange(paddr, length)
    THEN [s |-> s, created |-> FALSE, entry |-> NoEntry]
    ELSE LET s1 == IF s.size >= memory_cache_size_max THEN clean_cache(s) ELSE s
             g == get_memory_data(s1, paddr, length, ok)
             entry == [paddr |-> paddr, length |-> length, last_updated |-> now,
                       last_used |-> now, data |-> g.data]
         IN  [s |-> g.s, created |-> TRUE, entry |-> entry]

create_new_entry(s, paddr, length, now, ok) ==
    IF OutOfRange(paddr, length)
    THEN [s |-> s, created |-> FALSE, entry |-> NoEntry]
    ELSE LET g == get_memory_data(s, paddr, length, ok)
             entry == [paddr |-> paddr, length |-> length, last_updated |-> now,
                       last_used |-> now, data |-> g.data]
             s1 == IF g.s.size >= memory_cache_size_max THEN clean_cache(g.s) ELSE g.s
         IN  [s |-> s1, created |-> TRUE, entry |-> entry]

\* --------------------------------------------------- external API functions
memory_cache_insert(s, paddr, now, ok) ==
    IF paddr # paddr_aligned(paddr)
    THEN [s |-> s, ret |-> NULL]
    ELSE IF paddr \in DOMAIN s.cache
    THEN validate_and_return_data(s, paddr, now, ok)
    ELSE LET c == create_new_entry(s, paddr, PageSize, now, ok)
         IN  IF ~c.created
             THEN [s |-> c.s, ret |-> NULL]
             ELSE [s |-> [c.s EXCEPT
                            !.cache = [k \in DOMAIN @ \cup {paddr} |->
                                         IF k = paddr THEN c.entry ELSE @[k]],
                            !.lru = <<paddr>> \o @,
                            !.size = @ + 1],
                   ret |-> c.entry.data]

\* mutant: remove counts the entry out of size and leaves its list node
memory_cache_remove_countsDown(s, paddr) ==
    IF paddr # paddr_aligned(paddr)
    THEN s
    ELSE IF paddr \in DOMAIN s.cache
    THEN [g_hash_table_remove(s, paddr) EXCEPT !.size = @ - 1]
    ELSE s

memory_cache_remove(s, paddr) ==
    IF paddr # paddr_aligned(paddr)
    THEN s
    ELSE g_hash_table_remove(s, paddr)

\* mutant: destroy frees the recency list and drops the table without
\* running the value destructor
memory_cache_destroy_noFree(s, order) ==
    [s EXCEPT !.lru = <<>>, !.cache = [k \in {} |-> NoEntry]]

\* g_hash_table_destroy: every entry is freed, in the table's iteration order
RECURSIVE g_hash_table_destroy(_, _)
g_hash_table_destroy(s, order) ==
    IF order = <<>> THEN s
    ELSE g_hash_table_destroy(g_hash_table_remove(s, Head(order)), Tail(order))

memory_cache_destroy(s, order) ==
    g_hash_table_destroy([s EXCEPT !.lru = <<>>], order)

\* ------------------------------------------------------------ bookkeeping
EmptyCache == [k \in {} |-> NoEntry]

\* the cache as an operation finds it
Cur == [cache |-> memory_cache, lru |-> memory_cache_lru, size |-> memory_cache_size,
        calls |-> <<>>, live |-> live, relBad |-> relBad]

Fetches(calls) == {i \in 1..Len(calls) : calls[i].cb = "fetch"}
Releases(calls) == {i \in 1..Len(calls) : calls[i].cb = "release"}
FetchesOf(calls, p) == {i \in Fetches(calls) : calls[i].paddr = p}
ReleasesOf(calls, p) == {i \in Releases(calls) : calls[i].paddr = p}

\* the state an operation leaves
Commit(s) ==
    /\ memory_cache' = s.cache
    /\ memory_cache_lru' = s.lru
    /\ memory_cache_size' = s.size
    /\ live' = s.live
    /\ relBad' = s.relBad

\* progress of the latest insert(p); remove(p); insert(p): stage counts the
\* operations matched so far; f and r count the fetches of p and the releases
\* of p's entry over them and hit tells that the first insert was a hit;
\* lf, lr and lhit describe the latest insert alone
NoTri == [stage |-> 0, p |-> 0, f |-> 0, r |-> 0, hit |-> FALSE,
          lf |-> 0, lr |-> 0, lhit |-> FALSE]

TriStep(op, p, calls, washit) ==
    LET f == Cardinality(FetchesOf(calls, p))
        r == Cardinality(ReleasesOf(calls, p))
    IN  IF op = "insert" /\ tri.stage = 2 /\ tri.p = p
        THEN [stage |-> 3, p |-> p, f |-> tri.f + f, r |-> tri.r + r, hit |-> tri.hit,
              lf |-> f, lr |-> r, lhit |-> washit]
        ELSE IF op = "insert" /\ p = paddr_aligned(p)
        THEN [stage |-> 1, p |-> p, f |-> f, r |-> r, hit |-> washit,
              lf |-> f, lr |-> r, lhit |-> washit]
        ELSE IF op = "remove" /\ tri.stage \in {1, 3} /\ tri.p = p
        THEN [stage |-> 2, p |-> p, f |-> tri.lf + f, r |-> tri.lr + r, hit |-> tri.lhit,
              lf |-> 0, lr |-> 0, lhit |-> FALSE]
        ELSE NoTri

Range(seq) == {seq[i] : i \in 1..Len(seq)}

\* the run of first-time inserts since init: pages in insertion order, rel the
\* paddr of every release call in call order; pure is FALSE once any other
\* operation was called or the run is longer than size_max + 1
NoFill == [pure |-> FALSE, pages |-> <<>>, rel |-> <<>>]

FillStep(p, ret, calls) ==
    LET IsRelease(c) == c.cb = "release"
        rels == SelectSeq(calls, IsRelease)
    IN  IF /\ fill.pure
           /\ Len(fill.pages) <= memory_cache_size_max
           /\ p = paddr_aligned(p)
           /\ p \notin Range(fill.pages)
           /\ Fetches(calls) # {}
           /\ ret # NULL
        THEN [pure |-> TRUE, pages |-> Append(fill.pages, p),
              rel |-> fill.rel \o [i \in 1..Len(rels) |-> rels[i].paddr]]
        ELSE NoFill

\* ------------------------------------------------------------------ actions
\* memory_cache_init has returned
Init ==
    /\ memory_cache = EmptyCache
    /\ memory_cache_lru = <<>>
    /\ memory_cache_size = 0
    /\ memory_cache_size_max \in 1..MaxSizeMax
    /\ memory_cache_age \in Ages
    /\ hvm \in BOOLEAN
    /\ vmi_size = MemSize
    /\ callbacks = TRUE
    /\ clock = 0
    /\ live = [b \in {} |-> [paddr |-> 0, length |-> 0]]
    /\ relBad = FALSE
    /\ last = [op |-> "init", paddr |-> 0, ret |-> NULL, calls |-> <<>>]
    /\ nops = 0
    /\ removedSince = {}
    /\ tri = NoTri
    /\ fill = [pure |-> TRUE, pages |-> <<>>, rel |-> <<>>]
    /\ last_used_page_key = 0
    /\ last_used_page = NULL
    /\ onlyInserts = TRUE

\* time passes between two operations
Tick ==
    /\ callbacks
    /\ clock < MaxClock
    /\ clock' = clock + 1
    /\ UNCHANGED <<memory_cache, memory_cache_lru, memory_cache_size,
                   memory_cache_size_max, memory_cache_age, hvm, vmi_size, callbacks,
                   live, relBad, last, nops, removedSince, tri, fill>>
    /\ UNCHANGED slotvars

\* a call of memory_cache_insert(vmi, paddr) whose fetches succeed iff ok
InsertCall(paddr, ok) ==
    /\ callbacks
    /\ nops' = nops + 1
    /\ LET r == memory_cache_insert(Cur, paddr, clock, ok)
       IN  /\ Commit(r.s)
           /\ last' = [op |-> "insert", paddr |-> paddr, ret |-> r.ret,
                       calls |-> r.s.calls]
           /\ tri' = TriStep("insert", paddr, r.s.calls, paddr \in DOMAIN memory_cache)
           /\ fill' = FillStep(paddr, r.ret, r.s.calls)
    /\ removedSince' = removedSince \ {paddr}
    /\ UNCHANGED <<memory_cache_size_max, memory_cache_age, hvm, vmi_size, callbacks, clock>>
    /\ UNCHANGED slotvars

Insert(paddr, ok) == nops < MaxOps /\ InsertCall(paddr, ok)

\* a call of memory_cache_remove(vmi, paddr)
RemoveCall(paddr) ==
    /\ callbacks
    /\ nops' = nops + 1
    /\ LET s == memory_cache_remove(Cur, paddr)
       IN  /\ Commit(s)
           /\ last' = [op |-> "remove", paddr |-> paddr, ret |-> NULL,
                       calls |-> s.calls]
           /\ tri' = TriStep("remove", paddr, s.calls, FALSE)
    /\ fill' = NoFill
    /\ removedSince' = IF paddr = paddr_aligned(paddr)
                       THEN removedSince \cup {paddr} ELSE removedSince
    /\ UNCHANGED <<memory_cache_size_max, memory_cache_age, hvm, vmi_size, callbacks, clock>>
    /\ UNCHANGED slotvars

Remove(paddr) == nops < MaxOps /\ RemoveCall(paddr)

Destroy(order) ==
    /\ callbacks
    /\ nops < MaxOps
    /\ nops' = nops + 1
    /\ LET s == memory_cache_destroy(Cur, order)
       IN  /\ Commit([s EXCEPT !.size = 0])
           /\ last' = [op |-> "destroy", paddr |-> 0, ret |-> NULL,
                       calls |-> s.calls]
    /\ memory_cache_size_max' = 0
    /\ memory_cache_age' = 0
    /\ callbacks' = FALSE
    /\ tri' = NoTri
    /\ fill' = NoFill
    /\ UNCHANGED <<hvm, vmi_size, clock, removedSince>>
    /\ UNCHANGED slotvars

Next ==
    \/ Tick
    \/ \E paddr \in Inputs : Insert(paddr, TRUE)
    \/ \E paddr \in Inputs : Insert(paddr, FALSE)
    \/ \E paddr \in Inputs : Remove(paddr)
    \/ \E order \in Perms(DOMAIN memory_cache) : Destroy(order)

Spec == Init /\ [][Next]_vars

\* ------------------------------------------ larger caches, filled and evicted
\* the cache with a capacity up to EvictSizeMax, one page more than fits in it
\* and as many operations: a paravirtualised guest (no range check), no
\* refreshing, every fetch succeeds
EvictOps == EvictSizeMax + 1
EvictPages == {i * PageSize : i \in 0..EvictSizeMax}

EvictInit ==
    /\ memory_cache = EmptyCache
    /\ memory_cache_lru = <<>>
    /\ memory_cache_size = 0
    /\ memory_cache_size_max \in 1..EvictSizeMax
    /\ memory_cache_age = 0
    /\ hvm = FALSE
    /\ vmi_size = MemSize
    /\ callbacks = TRUE
    /\ clock = 0
    /\ live = [b \in {} |-> [paddr |-> 0, length |-> 0]]
    /\ relBad = FALSE
    /\ last = [op |-> "init", paddr |-> 0, ret |-> NULL, calls |-> <<>>]
    /\ nops = 0
    /\ removedSince = {}
    /\ tri = NoTri
    /\ fill = [pure |-> TRUE, pages |-> <<>>, rel |-> <<>>]
    /\ last_used_page_key = 0
    /\ last_used_page = NULL
    /\ onlyInserts = TRUE

EvictInsert(paddr) == nops < EvictOps /\ InsertCall(paddr, TRUE)
EvictRemove(paddr) == nops < EvictOps /\ RemoveCall(paddr)

EvictNext ==
    \/ \E paddr \in EvictPages : EvictInsert(paddr)
    \/ \E paddr \in EvictPages : EvictRemove(paddr)

EvictSpec == EvictInit /\ [][EvictNext]_vars

\* ------------------------------------- the build without ENABLE_PAGE_CACHE
\* the slot and the callback bookkeeping an operation works on
SlotCur == [key |-> last_used_page_key, page |-> last_used_page, calls |-> <<>>,
            live |-> live, relBad |-> relBad]

\* if(vmi->last_used_page_key && vmi->last_used_page)
SlotOccupied(s) == s.key # 0 /\ s.page # NULL

memory_cache_insert_slot(s, paddr, ok) ==
    IF paddr = s.key /\ s.page # NULL
    THEN [s |-> s, ret |-> s.page]
    ELSE LET s1 == IF SlotOccupied(s)
                   THEN release_data_callback(s, s.key, s.page, PageSize)
                   ELSE s
             g  == get_memory_data(s1, paddr, PageSize, ok)
             s2 == [g.s EXCEPT !.page = g.data, !.key = paddr]
         IN  [s |-> s2, ret |-> s2.page]

memory_cache_remove_slot(s, paddr) ==
    IF paddr = s.key /\ s.page # NULL
    THEN release_data_callback(s, s.key, s.page, PageSize)
    ELSE s

memory_cache_destroy_slot(s) ==
    LET s1 == IF SlotOccupied(s)
              THEN release_data_callback(s, s.key, s.page, PageSize)
              ELSE s
    IN  [s1 EXCEPT !.key = 0, !.page = NULL]

\* the state a slot operation leaves
SlotCommit(s) ==
    /\ last_used_page_key' = s.key
    /\ last_used_page' = s.page
    /\ live' = s.live
    /\ relBad' = s.relBad

\* the state of the full cache, not compiled into this build
cachevars == <<memory_cache, memory_cache_lru, memory_cache_size, memory_cache_size_max,
               memory_cache_age, hvm, vmi_size, clock, removedSince, tri, fill>>

\* memory_cache_init has returned; vmi is zero-initialised
SlotInit ==
    /\ memory_cache = EmptyCache
    /\ memory_cache_lru = <<>>
    /\ memory_cache_size = 0
    /\ memory_cache_size_max = 0
    /\ memory_cache_age = 0
    /\ hvm = FALSE
    /\ vmi_size = MemSize
    /\ callbacks = TRUE
    /\ clock = 0
    /\ live = [b \in {} |-> [paddr |-> 0, length |-> 0]]
    /\ relBad = FALSE
    /\ last = [op |-> "init", paddr |-> 0, ret |-> NULL, calls |-> <<>>]
    /\ nops = 0
    /\ removedSince = {}
    /\ tri = NoTri
    /\ fill = NoFill
    /\ last_used_page_key = 0
    /\ last_used_page = NULL
    /\ onlyInserts = TRUE

SlotInsert(paddr, ok) ==
    /\ callbacks
    /\ nops < MaxOps
    /\ nops' = nops + 1
    /\ LET r == memory_cache_insert_slot(SlotCur, paddr, ok)
       IN  /\ SlotCommit(r.s)
           /\ last' = [op |-> "insert", paddr |-> paddr, ret |-> r.ret,
                       calls |-> r.s.calls]
    /\ UNCHANGED <<callbacks, onlyInserts>>
    /\ UNCHANGED cachevars

SlotRemove(paddr) ==
    /\ callbacks
    /\ nops < MaxOps
    /\ nops' = nops + 1
    /\ LET s == memory_cache_remove_slot(SlotCur, paddr)
       IN  /\ SlotCommit(s)
           /\ last' = [op |-> "remove", paddr |-> paddr, ret |-> NULL,
                       calls |-> s.calls]
    /\ onlyInserts' = FALSE
    /\ UNCHANGED callbacks
    /\ UNCHANGED cachevars

SlotDestroy ==
    /\ callbacks
    /\ nops < MaxOps
    /\ nops' = nops + 1
    /\ LET s == memory_cache_destroy_slot(SlotCur)
       IN  /\ SlotCommit(s)
           /\ last' = [op |-> "destroy", paddr |-> 0, ret |-> NULL,
                       calls |-> s.calls]
    /\ callbacks' = FALSE
    /\ onlyInserts' = FALSE
    /\ UNCHANGED cachevars

SlotNext ==
    \/ \E paddr \in Inputs : SlotInsert(paddr, TRUE)
    \/ \E paddr \in Inputs : SlotInsert(paddr, FALSE)
    \/ \E paddr \in Inputs : SlotRemove(paddr)
    \/ SlotDestroy

SlotSpec == SlotInit /\ [][SlotNext]_vars

\* ------------------------------------------------------------------ claims
Occurrences(seq, x) == {i \in 1..Len(seq) : seq[i] = x}
Aligned(p) == p % PageSize = 0
Pages == {p \in Inputs : Aligned(p)}

\* the steps that are a call of insert(p), of remove(p): every operation counts
\* itself in nops and leaves its name and argument in last
InsertStep(p) == nops' = nops + 1 /\ last'.op = "insert" /\ last'.paddr = p
RemoveStep(p) == nops' = nops + 1 /\ last'.op = "remove" /\ last'.paddr = p
\* the fetch callback was called in the step and returned NULL
FetchFailed == \E i \in Fetches(last'.calls) : last'.calls[i].buf = NULL

\* C1: in every state between init and destroy, the counter size equals the
\* number of entries of the index and the number of nodes of the recency list.
C1_SizeIsIndexIsList ==
    callbacks =>
        /\ memory_cache_size = Cardinality(DOMAIN memory_cache)
        /\ memory_cache_size = Len(memory_cache_lru)

\* C2: after every operation the index keys and the recency list keys correspond
\* one to one: every index key occurs exactly once in the list, every list key
\* is an index key, and every key is page-aligned.
C2_IndexMatchesList ==
    /\ \A k \in DOMAIN memory_cache :
          Cardinality(Occurrences(memory_cache_lru, k)) = 1 /\ Aligned(k)
    /\ \A k \in Range(memory_cache_lru) : k \in DOMAIN memory_cache /\ Aligned(k)

\* C3: remove(p) with aligned p and p present takes p out of the index and out of
\* the recency list, releases its buffer exactly once and nothing else, and size
\* drops by one; with p absent it calls no callback and changes nothing.  The
\* entries of the other keys are untouched in both cases.
C3_RemoveEffect ==
    [][\A p \in Pages : RemoveStep(p) =>
          /\ \A k \in DOMAIN memory_cache \ {p} :
                k \in DOMAIN memory_cache' /\ memory_cache'[k] = memory_cache[k]
          /\ IF p \in DOMAIN memory_cache
             THEN /\ p \notin DOMAIN memory_cache'
                  /\ p \notin Range(memory_cache_lru')
                  /\ memory_cache_size' = memory_cache_size - 1
                  /\ last'.calls = <<[cb |-> "release", paddr |-> p,
                                      length |-> memory_cache[p].length,
                                      buf |-> memory_cache[p].data]>>
             ELSE /\ last'.calls = <<>>
                  /\ UNCHANGED <<memory_cache, memory_cache_lru, memory_cache_size>>
      ]_vars

\* C4: release is called only on a buffer that fetch returned and that is still
\* live, with the length it was fetched with (so never on NULL and never twice on
\* one buffer), and every buffer that is live belongs to an entry of the index:
\* an entry that left the cache has had its buffer released.
C4_ReleaseDiscipline ==
    /\ ~relBad
    /\ \A i \in Releases(last.calls) : last.calls[i].buf # NULL
    /\ \A b \in DOMAIN live :
          \E k \in DOMAIN memory_cache :
              memory_cache[k].data = b /\ memory_cache[k].length = live[b].length

\* C5: when fetch returns NULL on an insert miss, insert returns NULL and the
\* index, the recency list and size stay as they were: no entry, no eviction.
C5_FailedFetchLeavesNoEntry ==
    [][\A p \in Pages :
          (InsertStep(p) /\ p \notin DOMAIN memory_cache /\ FetchFailed) =>
              /\ last'.ret = NULL
              /\ p \notin DOMAIN memory_cache'
              /\ UNCHANGED <<memory_cache, memory_cache_lru, memory_cache_size>>
      ]_vars

\* C6: once destroy has returned no buffer that fetch handed out is live (each
\* has been released, no release went wrong), size is 0 and the index and the
\* recency list are empty.
C6_DestroyReleasesAll ==
    last.op = "destroy" =>
        /\ DOMAIN live = {}
        /\ ~relBad
        /\ memory_cache_size = 0
        /\ DOMAIN memory_cache = {}
        /\ memory_cache_lru = <<>>

\* destroy has returned and has released the buffers of two entries
C6_Witness ==
    /\ last.op = "destroy"
    /\ Cardinality({i \in Releases(last.calls) : last.calls[i].buf # NULL}) >= 2

\* C7: insert(p) and remove(p) with p not a multiple of page_size call neither
\* fetch nor release and leave the index (every entry's buffer and timestamps
\* with it), the recency list and size as they were; insert returns NULL.
C7_MisalignedIsNoOp ==
    [][\A p \in Inputs \ Pages : (InsertStep(p) \/ RemoveStep(p)) =>
          /\ last'.calls = <<>>
          /\ last'.ret = NULL
          /\ UNCHANGED <<memory_cache, memory_cache_lru, memory_cache_size, live>>
      ]_vars

\* a misaligned insert has returned while the cache holds an entry
C7_Witness ==
    /\ last.op = "insert"
    /\ ~Aligned(last.paddr)
    /\ DOMAIN memory_cache # {}

\* C8: for a HVM guest an insert miss of an aligned paddr whose page ends past
\* the memory size (paddr + page_size > size, not reduced mod the address
\* width) returns NULL, calls no callback and changes nothing.
C8_OutOfRangeRejected ==
    [][\A p \in Pages :
          (InsertStep(p) /\ hvm /\ p \notin DOMAIN memory_cache
                         /\ p + PageSize > vmi_size) =>
              /\ last'.ret = NULL
              /\ last'.calls = <<>>
              /\ UNCHANGED <<memory_cache, memory_cache_lru, memory_cache_size, live>>
      ]_vars

\* C9: an insert(p) that finds an entry holding a buffer (the one an earlier
\* insert(p) returned; no remove, destroy or eviction of p since) returns that
\* buffer and calls neither fetch nor release, unless age_limit > 0 and the entry
\* is stale; so with age_limit = 0 it never refetches, whatever the clock.
StaleAt(now, p) ==
    memory_cache_age > 0 /\ now - memory_cache[p].last_updated > memory_cache_age

C9_HitReturnsSameBuffer ==
    [][\A p \in Pages :
          (InsertStep(p) /\ p \in DOMAIN memory_cache
                         /\ memory_cache[p].data # NULL /\ ~StaleAt(clock, p)) =>
              /\ last'.ret = memory_cache[p].data
              /\ last'.calls = <<>>
              /\ memory_cache'[p].data = memory_cache[p].data
      ]_vars

\* a hit has returned the entry's buffer after the clock had advanced
C9_Witness ==
    /\ last.op = "insert"
    /\ last.paddr \in DOMAIN memory_cache
    /\ last.calls = <<>>
    /\ last.ret # NULL
    /\ last.ret = memory_cache[last.paddr].data
    /\ memory_cache[last.paddr].last_used > memory_cache[last.paddr].last_updated

\* C10 as stated: every insert(p); remove(p); insert(p) on an aligned p calls
\* fetch(p) exactly twice and release exactly once, the second insert a miss, and
\* an insert of p that follows a remove of p, with no insert of p in between,
\* always misses and fetches.
C10_AsStated ==
    /\ [](tri.stage = 3 => tri.f = 2 /\ tri.r = 1 /\ ~tri.lhit)
    /\ [][\A p \in Pages : (InsertStep(p) /\ p \in removedSince) =>
              /\ p \notin DOMAIN memory_cache
              /\ Cardinality(FetchesOf(last'.calls, p)) = 1
         ]_vars

\* C10, amended: when p is not cached at the first insert and the range check
\* admits p, insert(p); remove(p); insert(p) calls fetch(p) exactly twice and
\* releases p's buffer exactly once, the second insert a miss; an insert of p
\* that follows a remove of p, with no insert of p in between, always misses,
\* and it fetches p once unless the range check rejects p.
C10_RemoveThenInsertMisses ==
    /\ []((tri.stage = 3 /\ ~tri.hit /\ ~OutOfRange(tri.p, PageSize)) =>
              tri.f = 2 /\ tri.r = 1 /\ ~tri.lhit)
    /\ [][\A p \in Pages : (InsertStep(p) /\ p \in removedSince) =>
              /\ p \notin DOMAIN memory_cache
              /\ Cardinality(FetchesOf(last'.calls, p)) =
                     (IF OutOfRange(p, PageSize) THEN 0 ELSE 1)
         ]_vars

\* insert(p); remove(p); insert(p) has run on a p that was not cached, with both
\* fetches handing out a buffer
C10_Witness ==
    /\ tri.stage = 3
    /\ ~tri.hit
    /\ tri.f = 2
    /\ last.ret # NULL
    /\ tri.p \in DOMAIN memory_cache

\* C12: after every operation the recency list is ordered most recent access
\* first: of two adjacent list keys that have an entry, the one nearer the head
\* has last_used >= the other's (so a hit on insert(p) has moved p to the head).
C12_ListOrderedByLastUsed ==
    \A i \in 1..(Len(memory_cache_lru) - 1) :
        (memory_cache_lru[i] \in DOMAIN memory_cache
            /\ memory_cache_lru[i + 1] \in DOMAIN memory_cache) =>
        memory_cache[memory_cache_lru[i]].last_used
            >= memory_cache[memory_cache_lru[i + 1]].last_used

\* C14: at every public-API boundary every entry of the index holds a live
\* buffer: not NULL, handed out by fetch for the entry's paddr and length and
\* not released.
C14_EntriesHoldLiveBuffers ==
    \A k \in DOMAIN memory_cache :
        /\ memory_cache[k].data # NULL
        /\ memory_cache[k].data \in DOMAIN live
        /\ live[memory_cache[k].data] =
               [paddr |-> memory_cache[k].paddr, length |-> memory_cache[k].length]

\* C16: between init and destroy, size <= size_max after every operation.
C16_SizeAtMostSizeMax ==
    callbacks => memory_cache_size <= memory_cache_size_max

\* an insert has filled the cache to its capacity of more than one entry
C16_Witness ==
    /\ callbacks
    /\ last.op = "insert"
    /\ memory_cache_size = memory_cache_size_max
    /\ memory_cache_size_max > 1
    /\ Cardinality(Releases(last.calls)) > 0

\* C20: between init and destroy, size is the number of nodes of the recency
\* list, the index has at most size entries, and every index key occurs in the
\* recency list.
C20_ListCoversIndex ==
    callbacks =>
        /\ memory_cache_size = Len(memory_cache_lru)
        /\ Cardinality(DOMAIN memory_cache) <= memory_cache_size
        /\ \A k \in DOMAIN memory_cache : k \in Range(memory_cache_lru)

\* the list holds two nodes of one resident key, so size exceeds the index
C20_Witness ==
    /\ callbacks
    /\ Cardinality(DOMAIN memory_cache) < memory_cache_size
    /\ \E k \in DOMAIN memory_cache : Cardinality(Occurrences(memory_cache_lru, k)) = 2

\* the list without the nodes that hold p
WithoutKey(lru, p) == LET Other(k) == k # p IN SelectSeq(lru, Other)

\* C13: with age_limit > 0, an insert(p) that hits an entry fetched more than
\* age_limit seconds ago releases the old buffer, then fetches once for the same
\* paddr and length, sets last_updated to now, returns the new buffer, and moves
\* p's node to the list head, the relative order of the other keys unchanged.
C13_StaleHitRefreshes ==
    [][\A p \in Pages :
          (/\ InsertStep(p)
           /\ p \in DOMAIN memory_cache
           /\ memory_cache_age > 0
           /\ clock - memory_cache[p].last_updated > memory_cache_age) =>
          /\ Len(last'.calls) = 2
          /\ last'.calls[1] = [cb |-> "release", paddr |-> p,
                               length |-> memory_cache[p].length,
                               buf |-> memory_cache[p].data]
          /\ last'.calls[2].cb = "fetch"
          /\ last'.calls[2].paddr = p
          /\ last'.calls[2].length = memory_cache[p].length
          /\ memory_cache'[p].last_updated = clock
          /\ memory_cache'[p].data = last'.calls[2].buf
          /\ last'.ret = last'.calls[2].buf
          /\ memory_cache_lru'[1] = p
          /\ Len(memory_cache_lru') = Len(memory_cache_lru)
          /\ WithoutKey(memory_cache_lru', p) = WithoutKey(memory_cache_lru, p)]_vars

\* the keys of the nodes that eviction detaches: those behind the first
\* size_max / 2 nodes
DetachedKeys ==
    {memory_cache_lru[i] :
        i \in (memory_cache_size_max \div 2 + 1)..Len(memory_cache_lru)}

\* the step is an insert(p) that misses and adds a new entry
MissStep(p) ==
    /\ InsertStep(p)
    /\ p \notin DOMAIN memory_cache
    /\ ~OutOfRange(p, PageSize)

\* C15: eviction runs on an insert miss exactly when size >= size_max before the
\* new entry is added; it detaches the nodes behind the first size_max / 2 of
\* the list, removes the index entry of each detached key and releases its
\* buffer; afterwards size <= size_max / 2 + 1 and the new key is resident at the
\* list head. Without eviction the miss only prepends the new key.
C15_EvictionOnFullMiss ==
    [][\A p \in Pages \cup EvictPages : MissStep(p) =>
          IF memory_cache_size >= memory_cache_size_max
          THEN /\ memory_cache_lru' =
                      <<p>> \o SubSeq(memory_cache_lru, 1, memory_cache_size_max \div 2)
               /\ memory_cache_size' <= memory_cache_size_max \div 2 + 1
               /\ memory_cache_size' = Len(memory_cache_lru')
               /\ DOMAIN memory_cache' =
                      (DOMAIN memory_cache \ DetachedKeys) \cup {p}
               /\ {last'.calls[i].buf : i \in Releases(last'.calls)} =
                      {memory_cache[k].data : k \in DetachedKeys \cap DOMAIN memory_cache}
               /\ Cardinality(Releases(last'.calls)) =
                      Cardinality(DetachedKeys \cap DOMAIN memory_cache)
               /\ \A k \in DOMAIN memory_cache \ DetachedKeys :
                      memory_cache'[k] = memory_cache[k]
          ELSE /\ memory_cache_lru' = <<p>> \o memory_cache_lru
               /\ memory_cache_size' = memory_cache_size + 1
               /\ DOMAIN memory_cache' = DOMAIN memory_cache \cup {p}
               /\ Releases(last'.calls) = {}
               /\ \A k \in DOMAIN memory_cache : memory_cache'[k] = memory_cache[k]]_vars

\* an insert into a full cache of capacity 4 has evicted two pages and kept two
\* behind the new one
C15_Witness ==
    /\ last.op = "insert"
    /\ last.ret # NULL
    /\ memory_cache_size_max = 4
    /\ Cardinality({i \in Releases(last.calls) : last.calls[i].buf # NULL}) = 2
    /\ memory_cache_size = 3
    /\ memory_cache_lru[1] = last.paddr
    /\ \A i \in 1..3 : memory_cache_lru[i] \in DOMAIN memory_cache

\* the number of live buffers after the first i callback calls of the step
LiveAfter(i) ==
    Cardinality(DOMAIN live)
      + Cardinality({j \in Fetches(last'.calls) : j <= i /\ last'.calls[j].buf # NULL})
      - Cardinality({j \in Releases(last'.calls) : j <= i /\ last'.calls[j].buf # NULL})

\* C19: an insert miss fetches the new page before it releases any evicted
\* page; during an insert or remove at most size_max + 1 buffers are live, and
\* at most size_max whenever an operation has returned.
C19_FetchBeforeEviction ==
    /\ [](callbacks => Cardinality(DOMAIN live) <= memory_cache_size_max)
    /\ [][\A p \in Inputs :
             /\ (InsertStep(p) \/ RemoveStep(p)) =>
                    /\ \A i \in 0..Len(last'.calls) :
                           LiveAfter(i) <= memory_cache_size_max + 1
                    /\ LiveAfter(Len(last'.calls)) = Cardinality(DOMAIN live')
             /\ (p \in Pages /\ MissStep(p)) =>
                    /\ Fetches(last'.calls) = {1}
                    /\ \A i \in Releases(last'.calls) : i > 1]_vars

\* a miss on a full cache of two live pages has fetched, then released a page
C19_Witness ==
    /\ last.op = "insert"
    /\ Len(last.calls) >= 2
    /\ last.calls[1].cb = "fetch"
    /\ last.calls[1].buf # NULL
    /\ \E i \in Releases(last.calls) : last.calls[i].buf # NULL
    /\ memory_cache_size_max = 2
    /\ Cardinality(DOMAIN live) = 2

\* size_max + 1 distinct pages were inserted into the empty cache, every fetch
\* succeeded and nothing else was called
Filled == fill.pure /\ Len(fill.pages) = memory_cache_size_max + 1

\* the pages of the run that were inserted first, the pages inserted after them
Earliest(n) == Range(SubSeq(fill.pages, 1, n))
Latest(n) == Range(SubSeq(fill.pages, n + 1, Len(fill.pages)))

\* C11 as stated: size_max + 1 distinct successful inserts into the empty cache
\* leave size_max / 2 + 1 pages resident and release the other size_max / 2,
\* the earliest inserted ones.
C11_AsStated ==
    Filled =>
        /\ Cardinality(DOMAIN memory_cache) = memory_cache_size_max \div 2 + 1
        /\ Len(fill.rel) = memory_cache_size_max \div 2
        /\ Range(fill.rel) = Earliest(memory_cache_size_max \div 2)

\* C11: size_max + 1 distinct successful inserts into the empty cache leave the
\* size_max / 2 + 1 pages inserted last resident, each with a live buffer, and
\* release each of the other size_max - size_max / 2 pages once, the earliest
\* inserted ones.
C11_FillEvictsEarliest ==
    Filled =>
        LET n == memory_cache_size_max - memory_cache_size_max \div 2
        IN  /\ Cardinality(DOMAIN memory_cache) = memory_cache_size_max \div 2 + 1
            /\ DOMAIN memory_cache = Latest(n)
            /\ Cardinality(DOMAIN live) = memory_cache_size_max \div 2 + 1
            /\ Len(fill.rel) = n
            /\ Range(fill.rel) = Earliest(n)
            /\ Cardinality(Earliest(n)) = n

\* four pages were inserted into a cache of capacity 3: the two inserted first
\* are released, the two inserted last are resident
C11_Witness ==
    /\ Filled
    /\ memory_cache_size_max = 3
    /\ Len(fill.rel) = 2
    /\ Cardinality(DOMAIN memory_cache) = 2

\* C17 (build without ENABLE_PAGE_CACHE): over every sequence of inserts, of
\* any address, at most one fetched buffer is live; an insert(q) after an
\* insert(p) that returned a buffer releases that buffer and then fetches q when
\* q # p, and returns the same buffer without a callback call when q = p.
C17_AtMostOneLive ==
    /\ [](onlyInserts => Cardinality(DOMAIN live) <= 1)
    /\ [][\A q \in Inputs :
             (/\ InsertStep(q)
              /\ onlyInserts
              /\ last.op = "insert"
              /\ last.ret # NULL) =>
             IF q = last.paddr
             THEN last'.calls = <<>> /\ last'.ret = last.ret
             ELSE /\ Len(last'.calls) = 2
                  /\ last'.calls[1] = [cb |-> "release", paddr |-> last.paddr,
                                       length |-> PageSize, buf |-> last.ret]
                  /\ last'.calls[2].cb = "fetch"
                  /\ last'.calls[2].paddr = q]_vars

\* C18 (build without ENABLE_PAGE_CACHE): over every sequence of insert, remove
\* and destroy no buffer is released twice, none is live after destroy, and the
\* buffer an insert returns is live.
C18_ReleasedExactlyOnce ==
    /\ ~relBad
    /\ ~callbacks => DOMAIN live = {}
    /\ (last.op = "insert" /\ last.ret # NULL) => last.ret \in DOMAIN live

====
